---- MODULE Spec2Model ----
(***************************************************************************)
(* Model of the Bybit order-forwarding service: the FastAPI handlers of    *)
(* src/app.py (version 2.0.0) and src/main.py (version 1.0.0) and the      *)
(* exchange wrapper BybitClient of src/bybit_client.py.                    *)
(*                                                                         *)
(* Numbers.  Python floats are modelled as integers: quantities and prices *)
(* in whole units, percentages in hundredths (0.10 is 10).  Binary         *)
(* rounding of floats is not modelled.  None is the empty tuple and a      *)
(* present value v is the one-element tuple <<v>>.                         *)
(*                                                                         *)
(* BybitClient.place_order is modelled from lines 58-116 of                *)
(* src/bybit_client.py.  Lines 118-184 of that file are a second, nested   *)
(* "def place_order" placed after the try statement of the first, where    *)
(* no control flow reaches it (and whose body is not indented); it is not  *)
(* modelled.                                                               *)
(***************************************************************************)
EXTENDS Integers, Sequences, FiniteSets, TLC

VARIABLES
    pc,       \* "idle" | "pending" | "done": position of the request in flight
    req,      \* the request in flight: [app, ep, body]
    parsed,   \* the OrderRequest built by validation (None when there is none)
    order,    \* the OrderRequest after the TP/SL derivation step
    calls,    \* the calls made to the exchange SDK for this request, in order
    err,      \* the exception that reached the handler: [cls, reason]
    resp,     \* the HTTP response: [status, code]
    cargs,    \* arguments of a direct call of compute_tp_sl_from_price
    cret      \* its result (None before the call)

vars == <<pc, req, parsed, order, calls, err, resp, cargs, cret>>

-----------------------------------------------------------------------------
(* Bounds of the model *)

MaxQty == 2      \* quantities and minimum order quantities range over 0..MaxQty
MaxLots == 2     \* prices are 100, 200, ..., 100 * MaxLots

-----------------------------------------------------------------------------
(* Python values *)

None == <<>>
Some(v) == <<v>>

\* A raw JSON field of a payload: absent, a number, or a string.
Absent == [k |-> "absent", v |-> 0, s |-> ""]
Num(n) == [k |-> "num", v |-> n, s |-> ""]
Str(x) == [k |-> "str", v |-> 0, s |-> x]

\* The numbers a decimal string of the model can denote (whole units).
NumRange == (0 - (MaxQty + 2))..(MaxQty + 2) \cup {100 * k : k \in 0..MaxLots}

\* float(s) for a string: Some(value), or None when float() raises ValueError.
PyFloatStr(s) ==
    IF \E n \in NumRange : ToString(n) = s
    THEN Some(CHOOSE n \in NumRange : ToString(n) = s)
    ELSE None

\* float(s) for the decimal strings of percentages, in hundredths.
PyFloatPct(s) == IF s = "0.2" THEN Some(20) ELSE None

\* float(x) for a raw JSON value.
PyFloat(raw) ==
    IF raw.k = "num" THEN Some(raw.v)
    ELSE IF raw.k = "str" THEN PyFloatStr(raw.s)
    ELSE None

\* str(x) of a whole-valued float: "2.0", "-3.0".
PyStr(n) == ToString(n) \o ".0"

\* s.strip() on the strings of the model.
Strip(s) == IF s = " {{close}} " THEN "{{close}}" ELSE s

\* abs(x)
Abs(n) == IF n < 0 THEN 0 - n ELSE n

\* s.lower() on the strings of the model.
Lower(s) ==
    CASE s = "Buy" -> "buy"
      [] s = "Sell" -> "sell"
      [] s = "SELL" -> "sell"
      [] s = "Market" -> "market"
      [] s = "Limit" -> "limit"
      [] s = "Leverage Not Modified" -> "leverage not modified"
      [] s = "Insufficient Balance" -> "insufficient balance"
      [] OTHER -> s

-----------------------------------------------------------------------------
(* OrderRequest of src/app.py: validation of a raw payload *)

\* Mutant: 'qty' replaces 'quantity' whenever 'qty' is given.
populate_quantity_qty_wins(values) ==
    IF values.qty.k # "absent"
    THEN IF PyFloat(values.qty) = None
         THEN None
         ELSE Some([values EXCEPT !.quantity = Num(PyFloat(values.qty)[1])])
    ELSE Some(values)

\* root_validator(pre=True): copy 'qty' into 'quantity' when only 'qty' is
\* given.  None when float(values["qty"]) raises.
populate_quantity(values) ==
    IF values.qty.k # "absent" /\ values.quantity.k = "absent"
    THEN IF PyFloat(values.qty) = None
         THEN None
         ELSE Some([values EXCEPT !.quantity = Num(PyFloat(values.qty)[1])])
    ELSE Some(values)

\* validator("price", pre=True, always=True).  [ok, val]: ok is FALSE when
\* the validator raises; val is the value handed on to the field's own
\* validation.
parse_price(v) ==
    IF v.k = "absent" THEN [ok |-> TRUE, val |-> None]
    ELSE IF v.k = "str"
    THEN IF PyFloatStr(v.s) # None
         THEN [ok |-> TRUE, val |-> PyFloatStr(v.s)]
         ELSE IF Strip(v.s) = "{{close}}"
              THEN [ok |-> TRUE, val |-> None]
              ELSE [ok |-> FALSE, val |-> None]
    ELSE [ok |-> TRUE, val |-> Some(v.v)]

\* validator("stop_loss_pct", "take_profit_pct", pre=True, always=True).
parse_pct(v) ==
    IF v.k = "absent" THEN [ok |-> TRUE, val |-> None]
    ELSE IF v.k = "str"
    THEN IF PyFloatPct(v.s) # None
         THEN [ok |-> TRUE, val |-> PyFloatPct(v.s)]
         ELSE [ok |-> FALSE, val |-> None]
    ELSE [ok |-> TRUE, val |-> Some(v.v)]

\* An Optional[float] field without a validator of its own.
OptFloat(v) ==
    IF v.k = "absent" THEN [ok |-> TRUE, val |-> None]
    ELSE [ok |-> PyFloat(v) # None, val |-> PyFloat(v)]

\* Field(..., gt=0) on a required float; Field(None, gt=0) on an optional one.
GtZero(opt) == opt = None \/ opt[1] > 0

\* OrderRequest(**payload) of src/app.py.  None when validation fails
\* (pydantic's ValidationError, a ValueError), else Some(order).
OrderRequest(payload) ==
    LET pq == populate_quantity(payload) IN
    IF pq = None THEN None
    ELSE
    LET values == pq[1]
        quantity == PyFloat(values.quantity)
        price == parse_price(values.price)
        sl == OptFloat(values.stop_loss)
        tp == OptFloat(values.take_profit)
        slp == parse_pct(values.stop_loss_pct)
        tpp == parse_pct(values.take_profit_pct)
    IN  IF /\ quantity # None
           /\ quantity[1] > 0
           /\ price.ok
           /\ GtZero(price.val)
           /\ sl.ok /\ tp.ok /\ slp.ok /\ tpp.ok
        THEN Some([symbol |-> values.symbol,
                   side |-> values.side,
                   order_type |-> values.order_type,
                   quantity |-> quantity[1],
                   price |-> price.val,
                   leverage |-> values.leverage,
                   reduce_only |-> values.reduce_only,
                   stop_loss |-> sl.val,
                   take_profit |-> tp.val,
                   stop_loss_pct |-> slp.val,
                   take_profit_pct |-> tpp.val,
                   is_leverage |-> 0])
        ELSE None

\* OrderRequest(**payload) of src/main.py: no validators, no aliasing, extra
\* fields ignored.
MainOrderRequest(payload) ==
    LET quantity == PyFloat(payload.quantity)
        price == OptFloat(payload.price)
    IN  IF /\ quantity # None
           /\ quantity[1] > 0
           /\ price.ok
           /\ GtZero(price.val)
        THEN Some([symbol |-> payload.symbol,
                   side |-> payload.side,
                   order_type |-> payload.order_type,
                   quantity |-> quantity[1],
                   price |-> price.val,
                   leverage |-> payload.leverage,
                   reduce_only |-> payload.reduce_only])
        ELSE None

-----------------------------------------------------------------------------
(* compute_tp_sl_from_price and the derivation step of the handlers *)

\* base_price * (1 + pct) and base_price * (1 - pct), pct in hundredths.
Times(base_price, factor) == (base_price * factor) \div 100

\* Mutant: the Sell branch computes like the Buy branch.
compute_tp_sl_side_blind(base_price, side, sl_pct, tp_pct) ==
    IF Lower(side) \in {"buy", "sell"}
    THEN [stop_loss |-> IF sl_pct # None
                        THEN Some(Times(base_price, 100 - sl_pct[1])) ELSE None,
          take_profit |-> IF tp_pct # None
                          THEN Some(Times(base_price, 100 + tp_pct[1])) ELSE None]
    ELSE [stop_loss |-> None, take_profit |-> None]

compute_tp_sl_from_price(base_price, side, sl_pct, tp_pct) ==
    IF Lower(side) = "buy"
    THEN [stop_loss |-> IF sl_pct # None
                        THEN Some(Times(base_price, 100 - sl_pct[1])) ELSE None,
          take_profit |-> IF tp_pct # None
                          THEN Some(Times(base_price, 100 + tp_pct[1])) ELSE None]
    ELSE IF Lower(side) = "sell"
    THEN [stop_loss |-> IF sl_pct # None
                        THEN Some(Times(base_price, 100 + sl_pct[1])) ELSE None,
          take_profit |-> IF tp_pct # None
                          THEN Some(Times(base_price, 100 - tp_pct[1])) ELSE None]
    ELSE [stop_loss |-> None, take_profit |-> None]

\* Mutant: the derived values replace the supplied ones.
DeriveTpSl_overwrite(o) ==
    IF /\ o.price # None
       /\ (o.stop_loss = None \/ o.take_profit = None)
       /\ (o.stop_loss_pct # None \/ o.take_profit_pct # None)
    THEN LET c == compute_tp_sl_from_price(o.price[1], o.side,
                                           o.stop_loss_pct, o.take_profit_pct)
         IN  [o EXCEPT !.stop_loss = c.stop_loss, !.take_profit = c.take_profit]
    ELSE o

\* Mutant: the derivation runs without a price, on a base price of 0.
DeriveTpSl_no_price_check(o) ==
    IF /\ (o.stop_loss = None \/ o.take_profit = None)
       /\ (o.stop_loss_pct # None \/ o.take_profit_pct # None)
    THEN LET c == compute_tp_sl_from_price(IF o.price = None THEN 0 ELSE o.price[1],
                                           o.side,
                                           o.stop_loss_pct, o.take_profit_pct)
         IN  [o EXCEPT !.stop_loss = IF o.stop_loss = None
                                     THEN c.stop_loss ELSE o.stop_loss,
                       !.take_profit = IF o.take_profit = None
                                       THEN c.take_profit ELSE o.take_profit]
    ELSE o

\* The derivation step of create_order and webhook_order (src/app.py).
DeriveTpSl(o) ==
    IF /\ o.price # None
       /\ (o.stop_loss = None \/ o.take_profit = None)
       /\ (o.stop_loss_pct # None \/ o.take_profit_pct # None)
    THEN LET c == compute_tp_sl_from_price(o.price[1], o.side,
                                           o.stop_loss_pct, o.take_profit_pct)
         IN  [o EXCEPT !.stop_loss = IF o.stop_loss = None
                                     THEN c.stop_loss ELSE o.stop_loss,
                       !.take_profit = IF o.take_profit = None
                                       THEN c.take_profit ELSE o.take_profit]
    ELSE o

-----------------------------------------------------------------------------
(* BybitClient (src/bybit_client.py) *)

\* The exception that leaves a call: its class and where it was first raised.
NoExc == [cls |-> "none", reason |-> ""]
Exc(cls, reason) == [cls |-> cls, reason |-> reason]

\* One call of the exchange SDK: the method, its keyword arguments, whether
\* the SDK raised, and what the exchange answered.
SdkCall(api, params, raised, answer) ==
    [api |-> api, params |-> params, raised |-> raised, answer |-> answer]

\* The result of a client method: the SDK calls it made and the exception it
\* raised (NoExc when it returned).
Result(cs, exc) == [calls |-> cs, exc |-> exc]

\* "leverage not modified" in str(e).lower()
NotModified(msg) == Lower(msg) = "leverage not modified"

\* Mutant: every SDK error of set_leverage is swallowed.
set_leverage_swallow_all(symbol, leverage, lev) ==
    Result(<<SdkCall("set_leverage",
                     [category |-> "linear", symbol |-> symbol,
                      buyLeverage |-> ToString(leverage),
                      sellLeverage |-> ToString(leverage)],
                     lev.raised, lev)>>,
           NoExc)

\* BybitClient.set_leverage: an SDK error is swallowed when its message says
\* the leverage was not modified, and re-raised as Exception otherwise.
set_leverage(symbol, leverage, lev) ==
    Result(<<SdkCall("set_leverage",
                     [category |-> "linear", symbol |-> symbol,
                      buyLeverage |-> ToString(leverage),
                      sellLeverage |-> ToString(leverage)],
                     lev.raised, lev)>>,
           IF lev.raised /\ ~NotModified(lev.msg)
           THEN Exc("Exception", "set_leverage") ELSE NoExc)

\* BybitClient.get_symbol_info: the ValueError for an empty list is raised
\* inside the try and leaves as Exception, like an SDK error.
get_symbol_info(symbol, info) ==
    Result(<<SdkCall("get_instruments_info",
                     [category |-> "linear", symbol |-> symbol],
                     info.k = "raise", info)>>,
           IF info.k = "raise" THEN Exc("Exception", "sdk")
           ELSE IF info.k = "empty" THEN Exc("Exception", "symbol_not_found")
           ELSE NoExc)

\* The parameters of BybitClient.place_order (self apart).
PlaceOrderParams ==
    {"symbol", "side", "order_type", "qty", "leverage", "price",
     "position_side", "reduce_only"}

\* Mutant: the price is sent whenever one was passed, whatever the order type.
PlaceOrderSend_price_always(a, price, env) ==
    LET params == [category |-> "linear", symbol |-> a.symbol, side |-> a.side,
                   orderType |-> a.order_type, qty |-> PyStr(a.qty),
                   positionIdx |-> 0, reduceOnly |-> a.reduce_only]
    IN  IF a.order_type = "Limit" /\ price = None
        THEN Result(<<>>, Exc("Exception", "limit_no_price"))
        ELSE Result(<<SdkCall("place_order",
                              IF price = None THEN params
                              ELSE params @@ [price |-> PyStr(price[1])],
                              env.place, None)>>,
                    IF env.place THEN Exc("Exception", "sdk") ELSE NoExc)

\* Mutant: a Limit order without a price is sent without a price field.
PlaceOrderSend_no_price_check(a, price, env) ==
    LET params == [category |-> "linear", symbol |-> a.symbol, side |-> a.side,
                   orderType |-> a.order_type, qty |-> PyStr(a.qty),
                   positionIdx |-> 0, reduceOnly |-> a.reduce_only]
    IN  Result(<<SdkCall("place_order",
                         IF a.order_type = "Limit" /\ price # None
                         THEN params @@ [price |-> PyStr(price[1])]
                         ELSE params,
                         env.place, None)>>,
               IF env.place THEN Exc("Exception", "sdk") ELSE NoExc)

\* Mutant: a failed order placement is tried a second time.
PlaceOrderSend_retry(a, price, env) ==
    LET params == [category |-> "linear", symbol |-> a.symbol, side |-> a.side,
                   orderType |-> a.order_type, qty |-> PyStr(a.qty),
                   positionIdx |-> 0, reduceOnly |-> a.reduce_only]
        sent == IF a.order_type = "Limit"
                THEN params @@ [price |-> PyStr(price[1])] ELSE params
    IN  IF a.order_type = "Limit" /\ price = None
        THEN Result(<<>>, Exc("Exception", "limit_no_price"))
        ELSE IF env.place
        THEN Result(<<SdkCall("place_order", sent, TRUE, None),
                      SdkCall("place_order", sent, TRUE, None)>>,
                    Exc("Exception", "sdk"))
        ELSE Result(<<SdkCall("place_order", sent, FALSE, None)>>, NoExc)

\* The body of place_order's try statement, after set_leverage returned.
PlaceOrderSend(a, price, env) ==
    LET params == [category |-> "linear", symbol |-> a.symbol, side |-> a.side,
                   orderType |-> a.order_type, qty |-> PyStr(a.qty),
                   positionIdx |-> 0, reduceOnly |-> a.reduce_only]
    IN  IF a.order_type = "Limit"
        THEN IF price = None
             THEN Result(<<>>, Exc("Exception", "limit_no_price"))
             ELSE Result(<<SdkCall("place_order",
                                   params @@ [price |-> PyStr(price[1])],
                                   env.place, None)>>,
                         IF env.place THEN Exc("Exception", "sdk") ELSE NoExc)
        ELSE Result(<<SdkCall("place_order", params, env.place, None)>>,
                    IF env.place THEN Exc("Exception", "sdk") ELSE NoExc)

\* Mutant: the leverage is set before the minimum quantity is checked.
place_order_leverage_first(a, env) ==
    IF ~(DOMAIN a \subseteq PlaceOrderParams)
    THEN Result(<<>>, Exc("TypeError", "unexpected_keyword"))
    ELSE
    LET si == get_symbol_info(a.symbol, env.info)
        min_qty == IF env.info.min = None THEN 0 ELSE PyFloatStr(env.info.min[1])[1]
        price == IF "price" \in DOMAIN a THEN a.price ELSE None
        leverage == IF "leverage" \in DOMAIN a THEN a.leverage ELSE 1
    IN  IF si.exc # NoExc THEN si
        ELSE LET sl == set_leverage(a.symbol, leverage, env.lev) IN
             IF sl.exc # NoExc
             THEN Result(si.calls \o sl.calls, Exc("Exception", "set_leverage"))
             ELSE IF a.qty < min_qty
             THEN Result(si.calls \o sl.calls, Exc("ValueError", "min_qty"))
             ELSE LET snd == PlaceOrderSend(a, price, env)
                  IN  Result(si.calls \o sl.calls \o snd.calls, snd.exc)

\* BybitClient.place_order(**a).  a is the record of keyword arguments; env
\* is what the exchange answers: env.info to get_instruments_info, env.lev
\* to set_leverage, env.place (TRUE: raises) to place_order.
place_order(a, env) ==
    IF ~(DOMAIN a \subseteq PlaceOrderParams)
    THEN Result(<<>>, Exc("TypeError", "unexpected_keyword"))
    ELSE
    LET si == get_symbol_info(a.symbol, env.info)
        min_qty == IF env.info.min = None THEN 0 ELSE PyFloatStr(env.info.min[1])[1]
        price == IF "price" \in DOMAIN a THEN a.price ELSE None
        leverage == IF "leverage" \in DOMAIN a THEN a.leverage ELSE 1
    IN  IF si.exc # NoExc THEN si
        ELSE IF a.qty < min_qty
        THEN Result(si.calls, Exc("ValueError", "min_qty"))
        ELSE LET sl == set_leverage(a.symbol, leverage, env.lev) IN
             IF sl.exc # NoExc
             THEN Result(si.calls \o sl.calls, Exc("Exception", "set_leverage"))
             ELSE LET snd == PlaceOrderSend(a, price, env)
                  IN  Result(si.calls \o sl.calls \o snd.calls, snd.exc)

\* Mutant: the SDK's exception is swallowed.
client_cancel_order_swallow(order_id, symbol, raised) ==
    Result(<<SdkCall("cancel_order",
                     [category |-> "linear", symbol |-> symbol, orderId |-> order_id],
                     raised, None)>>,
           NoExc)

\* BybitClient.cancel_order
client_cancel_order(order_id, symbol, raised) ==
    Result(<<SdkCall("cancel_order",
                     [category |-> "linear", symbol |-> symbol, orderId |-> order_id],
                     raised, None)>>,
           IF raised THEN Exc("Exception", "sdk") ELSE NoExc)

\* BybitClient.cancel_all_orders
client_cancel_all_orders(symbol, raised) ==
    Result(<<SdkCall("cancel_all_orders",
                     [category |-> "linear", symbol |-> symbol], raised, None)>>,
           IF raised THEN Exc("Exception", "sdk") ELSE NoExc)

\* BybitClient.get_position: [calls, exc, pos], pos None for an empty list.
client_get_position(symbol, p) ==
    [calls |-> <<SdkCall("get_positions",
                         [category |-> "linear", symbol |-> symbol],
                         p.k = "raise", p)>>,
     exc |-> IF p.k = "raise" THEN Exc("Exception", "sdk") ELSE NoExc,
     pos |-> IF p.k = "found" THEN Some([side |-> p.side, size |-> p.size]) ELSE None]

\* float(position.get("size", "0"))
PositionSize(pos) == IF pos.size = None THEN 0 ELSE PyFloatStr(pos.size[1])[1]

\* Mutant: the closing order takes the side of the position.
client_close_position_same_side(symbol, p, raised) ==
    IF p.k = "raise"
    THEN Result(<<SdkCall("get_positions", [category |-> "linear", symbol |-> symbol],
                          TRUE, p)>>,
                Exc("Exception", "sdk"))
    ELSE IF p.k # "found" \/ p.size = None \/ PyFloatStr(p.size[1]) = Some(0)
    THEN Result(<<SdkCall("get_positions", [category |-> "linear", symbol |-> symbol],
                          FALSE, p)>>,
                Exc("Exception", "no_position"))
    ELSE Result(<<SdkCall("get_positions", [category |-> "linear", symbol |-> symbol],
                          FALSE, p),
                  SdkCall("place_order",
                          [category |-> "linear", symbol |-> symbol,
                           side |-> p.side, orderType |-> "Market",
                           qty |-> PyStr(Abs(PyFloatStr(p.size[1])[1])),
                           positionIdx |-> 0, reduceOnly |-> TRUE],
                          raised, None)>>,
                IF raised THEN Exc("Exception", "sdk") ELSE NoExc)

\* BybitClient.close_position
client_close_position(symbol, p, raised) ==
    LET gp == client_get_position(symbol, p) IN
    IF gp.exc # NoExc THEN Result(gp.calls, Exc("Exception", "sdk"))
    ELSE IF gp.pos = None \/ PositionSize(gp.pos[1]) = 0
    THEN Result(gp.calls, Exc("Exception", "no_position"))
    ELSE LET position == gp.pos[1]
             side == IF position.side = "Buy" THEN "Sell" ELSE "Buy"
         IN  Result(gp.calls \o
                    <<SdkCall("place_order",
                              [category |-> "linear", symbol |-> symbol,
                               side |-> side, orderType |-> "Market",
                               qty |-> PyStr(Abs(PositionSize(position))),
                               positionIdx |-> 0, reduceOnly |-> TRUE],
                              raised, None)>>,
                    IF raised THEN Exc("Exception", "sdk") ELSE NoExc)

\* BybitClient.get_wallet_balance
client_get_wallet_balance(raised) ==
    Result(<<SdkCall("get_wallet_balance", [accountType |-> "UNIFIED"], raised, None)>>,
           IF raised THEN Exc("Exception", "sdk") ELSE NoExc)

-----------------------------------------------------------------------------
(* Inputs: the requests that arrive and the answers of the exchange *)

Symbols == {"BTCUSDT"}
OrderSides == {"Buy", "Sell"}
OrderTypes == {"Market", "Limit"}
Leverages == {1, 5}

RawQuantity == {Absent} \cup {Num(n) : n \in 0..MaxQty}
RawQty == {Absent, Num(1), Str(ToString(MaxQty + 1)), Str("abc")}
RawPrice == {Absent} \cup {Num(100 * k) : k \in 1..MaxLots}
            \cup {Str("100"), Str("{{close}}"), Str(" {{close}} "), Str("abc")}
RawStopLoss == {Absent, Num(90)}
RawTakeProfit == {Absent, Num(120)}
RawStopLossPct == {Absent, Num(10)}
RawTakeProfitPct == {Absent, Num(150), Str("0.2")}

\* The JSON bodies sent to /order and /webhook.
Payloads ==
    [symbol : Symbols, side : OrderSides, order_type : OrderTypes,
     quantity : RawQuantity, qty : RawQty, price : RawPrice,
     leverage : Leverages, reduce_only : BOOLEAN,
     stop_loss : RawStopLoss, take_profit : RawTakeProfit,
     stop_loss_pct : RawStopLossPct, take_profit_pct : RawTakeProfitPct]

\* The bodies drawn for /order of src/main.py: its model ignores the extra
\* fields, of which stop_loss and take_profit are kept.
MainPayloads ==
    {b \in Payloads : /\ b.qty = Absent
                      /\ b.stop_loss_pct = Absent
                      /\ b.take_profit_pct = Absent}

\* The routes that take a symbol only, or nothing.
SymbolRoutes == {"cancel-all-orders", "position", "close-position"}
Apps == {"app", "main"}

\* Answers of get_instruments_info: an SDK error, an empty list, or an
\* instrument with or without a minOrderQty.
InfoAnswers ==
    {[k |-> "raise", min |-> None], [k |-> "empty", min |-> None],
     [k |-> "found", min |-> None]}
    \cup {[k |-> "found", min |-> Some(ToString(n))] : n \in 1..MaxQty}

\* Answers of set_leverage.
LeverageAnswers ==
    {[raised |-> FALSE, msg |-> ""],
     [raised |-> TRUE, msg |-> "Leverage Not Modified"],
     [raised |-> TRUE, msg |-> "Insufficient Balance"]}

\* Answers of get_positions: an SDK error, an empty list, or a position.
PositionAnswers ==
    {[k |-> "raise", side |-> "", size |-> None],
     [k |-> "empty", side |-> "", size |-> None]}
    \cup {[k |-> "found", side |-> sd, size |-> sz] :
            sd \in {"Buy", "Sell", ""},
            sz \in {None} \cup {Some(ToString(n)) : n \in (0 - MaxQty)..MaxQty}}

\* What the exchange answers during place_order.
Envs == [info : InfoAnswers, lev : LeverageAnswers, place : BOOLEAN]

-----------------------------------------------------------------------------
(* The handlers *)

NoReq == [app |-> "", ep |-> "", body |-> None]
NoResp == [status |-> "", code |-> 0]

\* return {"status": "success", ...} or the HTTPException of the handler's
\* except clauses: 400 for ValueError where the handler has that clause,
\* 500 for every other exception.
Respond(exc, hasValueErrorClause) ==
    IF exc.cls = "none" THEN [status |-> "success", code |-> 200]
    ELSE IF exc.cls = "ValueError" /\ hasValueErrorClause
    THEN [status |-> "error", code |-> 400]
    ELSE [status |-> "error", code |-> 500]

\* The keyword arguments create_order of src/app.py passes to place_order.
CreateOrderArgs(o) ==
    [symbol |-> o.symbol, side |-> o.side, order_type |-> o.order_type,
     qty |-> o.quantity,
     price |-> IF Lower(o.order_type) = "market" THEN None ELSE o.price,
     leverage |-> o.leverage, reduce_only |-> o.reduce_only,
     stop_loss |-> o.stop_loss, take_profit |-> o.take_profit,
     stop_loss_pct |-> o.stop_loss_pct, take_profit_pct |-> o.take_profit_pct,
     is_leverage |-> o.is_leverage]

\* The keyword arguments webhook_order of src/app.py passes to place_order.
WebhookOrderArgs(o) ==
    [symbol |-> o.symbol, side |-> o.side, order_type |-> o.order_type,
     qty |-> o.quantity, price |-> o.price,
     leverage |-> o.leverage, reduce_only |-> o.reduce_only,
     stop_loss |-> o.stop_loss, take_profit |-> o.take_profit,
     stop_loss_pct |-> o.stop_loss_pct, take_profit_pct |-> o.take_profit_pct,
     is_leverage |-> o.is_leverage]

\* The keyword arguments create_order of src/main.py passes to place_order.
MainCreateOrderArgs(o) ==
    [symbol |-> o.symbol, side |-> o.side, order_type |-> o.order_type,
     qty |-> o.quantity, price |-> o.price,
     leverage |-> o.leverage, reduce_only |-> o.reduce_only]

\* A handler ends: the calls it made, the exception it caught, its response.
Finish(r, hasValueErrorClause) ==
    /\ pc' = "done"
    /\ calls' = r.calls
    /\ err' = r.exc
    /\ resp' = Respond(r.exc, hasValueErrorClause)

\* A request arrives at a route and waits for its handler.
Arrive(r) ==
    /\ req' = r
    /\ pc' = "pending"
    /\ UNCHANGED <<parsed, order, calls, err, resp, cargs, cret>>

\* A handler whose parameter is a pydantic model runs on validated bodies
\* only: the framework answers the others itself.
ReceiveOrder ==
    /\ pc = "idle"
    /\ \E b \in Payloads :
        /\ OrderRequest(b) # None
        /\ Arrive([app |-> "app", ep |-> "order", body |-> b])

\* /webhook reads the raw body and validates it in the handler.
ReceiveWebhook ==
    /\ pc = "idle"
    /\ \E b \in Payloads : Arrive([app |-> "app", ep |-> "webhook", body |-> b])

ReceiveMainOrder ==
    /\ pc = "idle"
    /\ \E b \in MainPayloads :
        /\ MainOrderRequest(b) # None
        /\ Arrive([app |-> "main", ep |-> "order", body |-> b])

ReceiveCancelOrder ==
    /\ pc = "idle"
    /\ \E a \in Apps, s \in Symbols :
        Arrive([app |-> a, ep |-> "cancel-order",
                body |-> [symbol |-> s, order_id |-> "id1"]])

ReceiveSymbolRoute ==
    /\ pc = "idle"
    /\ \E a \in Apps, e \in SymbolRoutes, s \in Symbols :
        Arrive([app |-> a, ep |-> e, body |-> [symbol |-> s]])

ReceiveBalance ==
    /\ pc = "idle"
    /\ \E a \in Apps : Arrive([app |-> a, ep |-> "balance", body |-> None])

\* POST /order of src/app.py
create_order ==
    /\ pc = "pending" /\ req.app = "app" /\ req.ep = "order"
    /\ parsed' = OrderRequest(req.body)
    /\ order' = Some(DeriveTpSl(parsed'[1]))
    /\ \E env \in Envs : Finish(place_order(CreateOrderArgs(order'[1]), env), TRUE)
    /\ UNCHANGED <<req, cargs, cret>>

\* POST /webhook of src/app.py
webhook_order ==
    /\ pc = "pending" /\ req.app = "app" /\ req.ep = "webhook"
    /\ parsed' = OrderRequest(req.body)
    /\ IF parsed' = None
       THEN /\ order' = None
            /\ Finish(Result(<<>>, Exc("ValueError", "validation")), TRUE)
       ELSE /\ order' = Some(DeriveTpSl(parsed'[1]))
            /\ \E env \in Envs :
                 Finish(place_order(WebhookOrderArgs(order'[1]), env), TRUE)
    /\ UNCHANGED <<req, cargs, cret>>

\* POST /order of src/main.py
main_create_order ==
    /\ pc = "pending" /\ req.app = "main" /\ req.ep = "order"
    /\ parsed' = MainOrderRequest(req.body)
    /\ order' = parsed'
    /\ \E env \in Envs : Finish(place_order(MainCreateOrderArgs(order'[1]), env), TRUE)
    /\ UNCHANGED <<req, cargs, cret>>

\* POST /cancel-order (both applications)
cancel_order ==
    /\ pc = "pending" /\ req.ep = "cancel-order"
    /\ \E raised \in BOOLEAN :
         Finish(client_cancel_order(req.body.order_id, req.body.symbol, raised), FALSE)
    /\ UNCHANGED <<req, parsed, order, cargs, cret>>

\* POST /cancel-all-orders (both applications)
cancel_all_orders ==
    /\ pc = "pending" /\ req.ep = "cancel-all-orders"
    /\ \E raised \in BOOLEAN :
         Finish(client_cancel_all_orders(req.body.symbol, raised), FALSE)
    /\ UNCHANGED <<req, parsed, order, cargs, cret>>

\* GET /position/{symbol} (both applications)
get_position ==
    /\ pc = "pending" /\ req.ep = "position"
    /\ \E p \in PositionAnswers :
         LET gp == client_get_position(req.body.symbol, p)
         IN  Finish(Result(gp.calls, gp.exc), FALSE)
    /\ UNCHANGED <<req, parsed, order, cargs, cret>>

\* POST /close-position (both applications)
close_position ==
    /\ pc = "pending" /\ req.ep = "close-position"
    /\ \E p \in PositionAnswers, raised \in BOOLEAN :
         Finish(client_close_position(req.body.symbol, p, raised), TRUE)
    /\ UNCHANGED <<req, parsed, order, cargs, cret>>

\* GET /balance (both applications)
get_balance ==
    /\ pc = "pending" /\ req.ep = "balance"
    /\ \E raised \in BOOLEAN : Finish(client_get_wallet_balance(raised), FALSE)
    /\ UNCHANGED <<req, parsed, order, cargs, cret>>

\* The response is sent and the request's objects are discarded.
Reply ==
    /\ pc = "done"
    /\ pc' = "idle"
    /\ req' = NoReq
    /\ parsed' = None
    /\ order' = None
    /\ calls' = <<>>
    /\ err' = NoExc
    /\ resp' = NoResp
    /\ UNCHANGED <<cargs, cret>>

NoArgs == [base_price |-> 0, side |-> "", sl_pct |-> None, tp_pct |-> None]

Init ==
    /\ pc = "idle"
    /\ req = NoReq
    /\ parsed = None
    /\ order = None
    /\ calls = <<>>
    /\ err = NoExc
    /\ resp = NoResp
    /\ cargs = NoArgs
    /\ cret = None

Next ==
    \/ ReceiveOrder
    \/ ReceiveWebhook
    \/ ReceiveMainOrder
    \/ ReceiveCancelOrder
    \/ ReceiveSymbolRoute
    \/ ReceiveBalance
    \/ create_order
    \/ webhook_order
    \/ main_create_order
    \/ cancel_order
    \/ cancel_all_orders
    \/ get_position
    \/ close_position
    \/ get_balance
    \/ Reply

Spec == Init /\ [][Next]_vars

-----------------------------------------------------------------------------
(* compute_tp_sl_from_price called on its own *)

ComputePcts == {None, Some(0), Some(10), Some(150), Some(0 - 20)}

ComputeArgs ==
    [base_price : {100 * k : k \in 0..MaxLots}, side : OrderSides \cup {"buy", "SELL"},
     sl_pct : ComputePcts, tp_pct : ComputePcts]

InitCompute ==
    /\ pc = "compute"
    /\ req = NoReq
    /\ parsed = None
    /\ order = None
    /\ calls = <<>>
    /\ err = NoExc
    /\ resp = NoResp
    /\ cargs \in ComputeArgs
    /\ cret = None

ComputeCall ==
    /\ pc = "compute"
    /\ pc' = "computed"
    /\ cret' = Some(compute_tp_sl_from_price(cargs.base_price, cargs.side,
                                             cargs.sl_pct, cargs.tp_pct))
    /\ UNCHANGED <<req, parsed, order, calls, err, resp, cargs>>

SpecCompute == InitCompute /\ [][ComputeCall]_vars

-----------------------------------------------------------------------------
(* Properties *)

\* The order-placement calls made for the request in flight.
PlaceCalls == {i \in DOMAIN calls : calls[i].api = "place_order"}

OrderRoute == req.ep \in {"order", "webhook"}

\* The order that validation and derivation of src/app.py make of a body.
Carried(body) == DeriveTpSl(OrderRequest(body)[1])

\* C1 (as claimed): whenever a request handled by /order or /webhook carries
\* a stop-loss or take-profit, absolute or derived from a percentage and the
\* price, every order-placement call sent to the exchange for it has the
\* stopLoss / takeProfit field with that value.
C1_StopLossTakeProfitSent ==
    (pc = "done" /\ OrderRoute /\ OrderRequest(req.body) # None) =>
        \A i \in PlaceCalls :
            /\ Carried(req.body).stop_loss # None =>
                  /\ "stopLoss" \in DOMAIN calls[i].params
                  /\ calls[i].params.stopLoss = PyStr(Carried(req.body).stop_loss[1])
            /\ Carried(req.body).take_profit # None =>
                  /\ "takeProfit" \in DOMAIN calls[i].params
                  /\ calls[i].params.takeProfit = PyStr(Carried(req.body).take_profit[1])

\* What the code does with the order requests of src/app.py: place_order
\* refuses the keyword arguments stop_loss, take_profit, stop_loss_pct,
\* take_profit_pct and is_leverage with a TypeError, so no call reaches the
\* exchange and the answer is HTTP 500.
AppPlaceOrderRaisesTypeError ==
    (pc = "done" /\ req.app = "app" /\ OrderRoute /\ order # None) =>
        /\ err = Exc("TypeError", "unexpected_keyword")
        /\ calls = <<>>
        /\ resp = [status |-> "error", code |-> 500]

\* C2: compute_tp_sl_from_price.  Buy: stop_loss = base * (1 - sl_pct),
\* take_profit = base * (1 + tp_pct); Sell: stop_loss = base * (1 + sl_pct),
\* take_profit = base * (1 - tp_pct); an absent percentage gives None for
\* its field, whatever the other one is.  (Percentages in hundredths.)
C2_ComputeTpSl ==
    pc = "computed" =>
        LET a == cargs
            r == cret[1]
        IN  /\ a.sl_pct = None <=> r.stop_loss = None
            /\ a.tp_pct = None <=> r.take_profit = None
            /\ (a.side = "Buy" /\ a.sl_pct # None) =>
                  100 * r.stop_loss[1] = a.base_price * (100 - a.sl_pct[1])
            /\ (a.side = "Buy" /\ a.tp_pct # None) =>
                  100 * r.take_profit[1] = a.base_price * (100 + a.tp_pct[1])
            /\ (a.side = "Sell" /\ a.sl_pct # None) =>
                  100 * r.stop_loss[1] = a.base_price * (100 + a.sl_pct[1])
            /\ (a.side = "Sell" /\ a.tp_pct # None) =>
                  100 * r.take_profit[1] = a.base_price * (100 - a.tp_pct[1])

C2_Witness ==
    /\ pc = "computed"
    /\ cargs = [base_price |-> 200, side |-> "Sell", sl_pct |-> Some(10), tp_pct |-> None]
    /\ cret = Some([stop_loss |-> Some(220), take_profit |-> None])

\* C3: an order-placement call has a price field exactly when its order
\* type is Limit; on /order and /webhook a Limit order that is placed
\* carries the request's price, and a Market order carries none whatever
\* price the request supplied.
C3_PriceIffLimit ==
    \A i \in PlaceCalls :
        /\ "price" \in DOMAIN calls[i].params <=> calls[i].params.orderType = "Limit"
        /\ (OrderRoute /\ calls[i].params.orderType = "Limit") =>
              /\ parsed[1].order_type = "Limit"
              /\ parsed[1].price # None
              /\ calls[i].params.price = PyStr(parsed[1].price[1])
        /\ (OrderRoute /\ parsed[1].order_type = "Market") =>
              "price" \notin DOMAIN calls[i].params

C3_Witness ==
    /\ pc = "done" /\ OrderRoute
    /\ parsed # None
    /\ parsed[1].order_type = "Market"
    /\ parsed[1].price = Some(100)
    /\ \E i \in PlaceCalls : "price" \notin DOMAIN calls[i].params

\* The SDK call a route exists to make.
PrincipalCall(ep) ==
    CASE ep \in {"order", "webhook", "close-position"} -> "place_order"
      [] ep = "cancel-order" -> "cancel_order"
      [] ep = "cancel-all-orders" -> "cancel_all_orders"
      [] ep = "position" -> "get_positions"
      [] ep = "balance" -> "get_wallet_balance"

\* An SDK error that the client swallows: set_leverage's "not modified".
Swallowed(c) == c.api = "set_leverage" /\ NotModified(c.answer.msg)

C5_ValidationErrorsAre400 ==
    (pc = "done" /\ err.reason \in {"min_qty", "limit_no_price", "no_position"}) =>
        resp = [status |-> "error", code |-> 400]

\* C6: a Limit order request without a price (absent, or "{{close}}" parsed
\* to None) never leads to an order-placement call, and ends in an error.
C6_LimitWithoutPriceNotPlaced ==
    (pc = "done" /\ OrderRoute /\ parsed # None
       /\ parsed[1].order_type = "Limit" /\ parsed[1].price = None) =>
        /\ PlaceCalls = {}
        /\ resp.status = "error"

C6_Witness ==
    /\ pc = "done" /\ OrderRoute /\ parsed # None
    /\ parsed[1].order_type = "Limit" /\ parsed[1].price = None
    /\ err.reason = "limit_no_price"
    /\ Len(calls) = 2

\* C7: with 'qty' and no 'quantity' the order's quantity is the number 'qty'
\* denotes; with both, 'quantity' is used and 'qty' changes nothing; the qty
\* of every order-placement call is that order quantity.
C7_QuantityAliasing ==
    (pc = "done" /\ OrderRoute /\ parsed # None) =>
        /\ (req.app = "app" /\ req.body.qty # Absent /\ req.body.quantity = Absent) =>
              Some(parsed[1].quantity) = PyFloat(req.body.qty)
        /\ req.body.quantity # Absent =>
              Some(parsed[1].quantity) = PyFloat(req.body.quantity)
        /\ \A i \in PlaceCalls : calls[i].params.qty = PyStr(parsed[1].quantity)

C7_Witness ==
    /\ pc = "done" /\ req.app = "app" /\ OrderRoute /\ parsed # None
    /\ req.body.qty = Str(ToString(MaxQty + 1)) /\ req.body.quantity = Absent
    /\ parsed[1].quantity = MaxQty + 1

\* C8: the derivation step never replaces a stop_loss or take_profit the
\* request supplied, fills only a field that was absent, and leaves every
\* other field of the order as it was.
C8_DerivationFrame ==
    (pc = "done" /\ req.app = "app" /\ OrderRoute /\ parsed # None) =>
        LET before == parsed[1]
            after == order[1]
        IN  /\ before.stop_loss # None => after.stop_loss = before.stop_loss
            /\ before.take_profit # None => after.take_profit = before.take_profit
            /\ \A f \in DOMAIN before \ {"stop_loss", "take_profit"} :
                  after[f] = before[f]
            /\ DOMAIN after = DOMAIN before

C8_Witness ==
    /\ pc = "done" /\ req.app = "app" /\ OrderRoute /\ parsed # None
    /\ parsed[1].price # None
    /\ parsed[1].stop_loss = Some(90) /\ parsed[1].stop_loss_pct = Some(10)
    /\ parsed[1].take_profit = None /\ parsed[1].take_profit_pct # None
    /\ order[1].stop_loss = Some(90)
    /\ order[1].take_profit # None

\* C9: handling one request makes at most one order-placement call, on
\* success and on every failure path.
C9_AtMostOnePlacement == Cardinality(PlaceCalls) <= 1

C9_Witness ==
    /\ pc = "done" /\ OrderRoute
    /\ resp = [status |-> "error", code |-> 500]
    /\ Cardinality(PlaceCalls) = 1
    /\ \E i \in PlaceCalls : calls[i].raised

\* The position the exchange reported has a non-zero size.
OpenPosition(c) ==
    /\ ~c.raised
    /\ c.answer.k = "found"
    /\ c.answer.size # None
    /\ PyFloatStr(c.answer.size[1]) # Some(0)

\* C10: close_position places an order only when the exchange reports a
\* position of non-zero size; the order is a Market order with reduceOnly
\* true, the side opposite to the position's (Sell for Buy, Buy otherwise)
\* and qty the absolute value of the size.  Without a position, or with
\* size 0, no order is placed and the call fails.
C10_ClosePosition ==
    (pc = "done" /\ req.ep = "close-position") =>
        /\ calls[1].api = "get_positions"
        /\ PlaceCalls # {} <=> OpenPosition(calls[1])
        /\ \A i \in PlaceCalls :
              /\ calls[i].params.orderType = "Market"
              /\ calls[i].params.reduceOnly = TRUE
              /\ calls[i].params.symbol = req.body.symbol
              /\ calls[i].params.side =
                    (IF calls[1].answer.side = "Buy" THEN "Sell" ELSE "Buy")
              /\ calls[i].params.qty =
                    PyStr(Abs(PyFloatStr(calls[1].answer.size[1])[1]))
        /\ ~OpenPosition(calls[1]) => resp.status = "error"

C10_Witness ==
    /\ pc = "done" /\ req.ep = "close-position"
    /\ calls[1].answer.side = "Sell"
    /\ calls[1].answer.size = Some(ToString(0 - MaxQty))
    /\ \E i \in PlaceCalls :
          /\ calls[i].params.side = "Buy"
          /\ calls[i].params.qty = PyStr(MaxQty)
    /\ resp.status = "success"

\* The set-leverage calls made for the request in flight.
LeverageCalls == {i \in DOMAIN calls : calls[i].api = "set_leverage"}

\* The instrument the exchange reported has a minimum order quantity above
\* the order's quantity.
BelowMinimum(c) ==
    /\ ~c.raised
    /\ c.answer.k = "found"
    /\ c.answer.min # None
    /\ parsed[1].quantity < PyFloatStr(c.answer.min[1])[1]

\* C11: in place_order the symbol-info lookup comes first; an order whose
\* symbol is not found, or whose qty is below the symbol's minOrderQty, is
\* rejected without any set-leverage call and without any order-placement
\* call.
C11_LookupAndMinimumFirst ==
    (pc = "done" /\ OrderRoute /\ calls # <<>>) =>
        /\ calls[1].api = "get_instruments_info"
        /\ \A i \in DOMAIN calls : calls[i].api = "get_instruments_info" => i = 1
        /\ (calls[1].raised \/ calls[1].answer.k = "empty" \/ BelowMinimum(calls[1])) =>
              /\ LeverageCalls = {}
              /\ PlaceCalls = {}
              /\ resp.status = "error"

C11_Witness ==
    /\ pc = "done" /\ OrderRoute
    /\ Len(calls) = 1
    /\ BelowMinimum(calls[1])
    /\ err = Exc("ValueError", "min_qty")
    /\ resp = [status |-> "error", code |-> 400]

\* C12: in place_order the set-leverage call comes before the
\* order-placement call, and when set-leverage fails with an error other
\* than "leverage not modified" no order is placed for the request.
C12_LeverageBeforePlacement ==
    (pc = "done" /\ OrderRoute) =>
        /\ \A i \in PlaceCalls : \E j \in LeverageCalls : j < i
        /\ (\E j \in LeverageCalls : calls[j].raised /\ ~Swallowed(calls[j])) =>
              /\ PlaceCalls = {}
              /\ resp.status = "error"

C12_Witness ==
    /\ pc = "done" /\ OrderRoute
    /\ \E j \in LeverageCalls :
          /\ calls[j].raised
          /\ calls[j].answer.msg = "Insufficient Balance"
    /\ PlaceCalls = {}
    /\ err = Exc("Exception", "set_leverage")
    /\ resp = [status |-> "error", code |-> 500]

\* C13: without a price (absent, or "{{close}}" parsed to None) nothing is
\* derived: stop_loss and take_profit stay as the request supplied them,
\* absent if absent, even when stop_loss_pct / take_profit_pct are given.
C13_NoPriceNoDerivation ==
    (pc = "done" /\ req.app = "app" /\ OrderRoute /\ parsed # None
       /\ parsed[1].price = None) =>
        /\ order[1].stop_loss = OptFloat(req.body.stop_loss).val
        /\ order[1].take_profit = OptFloat(req.body.take_profit).val

C13_Witness ==
    /\ pc = "done" /\ req.app = "app" /\ OrderRoute /\ parsed # None
    /\ req.body.price = Str("{{close}}")
    /\ parsed[1].price = None
    /\ parsed[1].stop_loss_pct = Some(10) /\ parsed[1].take_profit_pct = Some(20)
    /\ req.body.stop_loss = Absent /\ req.body.take_profit = Num(120)
    /\ order[1].stop_loss = None
    /\ order[1].take_profit = Some(120)

====
